---------------------------- MODULE Spec2Model ----------------------------
(***************************************************************************)
(* A model of the project-tracking server of src/index.js (the second,     *)
(* complete listing of the file, lines 241-806): the Mongo collections     *)
(* projects, checkins, feedbacks and risks, the routes that write them,    *)
(* the health-score handler (GET /api/projects/:id/health, "Policy A"),    *)
(* the admin listing with calculateHealth ("Policy B"), and the            *)
(* pending / missing check-in views.                                       *)
(*                                                                         *)
(* A collection is a bag of documents: no handler modelled here reads a    *)
(* document's _id (other than a project's) or the natural order of a       *)
(* result array.  A project's _id is an ObjectId; every projectId and      *)
(* employeeId held by the other documents is a string.  A handler with one *)
(* database call, and each read-only view, is one step; the health handler *)
(* takes one step for each of its four awaited database calls.             *)
(*                                                                         *)
(* Numbers are exact rationals <<n, d>>.  The IEEE-754 evaluation of the   *)
(* Policy A expression was compared with the exact one on every input of   *)
(* up to six feedback entries and four check-ins with ratings 1..5 and     *)
(* completion 0..100, and rounds to the same integer on all of them.  The  *)
(* Policy B products round like the exact ones on every input within the   *)
(* sets used below (confidence 1, 3, 5; up to three check-ins and three    *)
(* feedback entries; up to thirteen High risks); outside them a product    *)
(* that is exactly a half can come out just below it (one High risk with   *)
(* confidence 3 and 4 and two feedback entries: 31, not 32).               *)
(***************************************************************************)
EXTENDS Integers, Sequences, FiniteSets, Bags, TLC

VARIABLES projects,   \* db.collection("projects"): ObjectId -> document
          nextId,     \* how many ObjectIds insertOne has generated so far
          checkins,   \* db.collection("checkins"): a bag of documents
          feedbacks,  \* db.collection("feedbacks"): a bag of documents
          risks,      \* db.collection("risks"): a bag of documents
          now,        \* the clock: days since 1 January of the year
          health,     \* the health handler's invocations in flight
          reply,      \* the response body the last step sent, if it sent one
          dirty       \* history: projects given a signal that no later
                      \* health computation has started after

vars == <<projects, nextId, checkins, feedbacks, risks, now, health, reply, dirty>>

-----------------------------------------------------------------------------
(* Bounds of the model.                                                    *)

MaxCheckins == 2
MaxFeedbacks == 2
MaxScoreFeedbacks == 4
MaxRisks == 11
MaxDay == 4

\* new Date(now.getFullYear(), 0, 1).getDay(): 1 January 2026 is a Thursday.
JanFirstDay == 4

\* The hexadecimal strings of the ObjectIds that insertOne generates, in order.
ProjectHex == <<"p1", "p2", "p3">>
\* The users with role employee (their _id as a string).
Employees == {"e1", "e2"}
\* The invocations of the health handler that may be in flight together.
Handlers == {1, 2}

\* The values of the signals whose scores are checked.
ScoreConfidenceLevels == {1, 3, 5}
ScoreCompletionPercentages == {0, 50, 70, 100}
ScoreSatisfactionRatings == {1, 4, 5}

-----------------------------------------------------------------------------
(* Values.                                                                 *)

\* new ObjectId(s) and its toString(): an ObjectId never equals a string.
ObjectId(s) == <<"ObjectId", s>>
toString(oid) == oid[2]
\* A string as a query's value: it matches no ObjectId, whatever its characters.
Str(s) == <<"string", s>>

\* JavaScript values that are not numbers.
NaN == <<"NaN", 0>>
Undefined == <<"undefined", 0>>
Num(n) == <<"number", n>>
IsNum(v) == v[1] = "number"

\* doc.name: undefined when the document has no such field.
Field(doc, name) == IF name \in DOMAIN doc THEN Num(doc[name]) ELSE Undefined

\* a + b on a number a and a number or undefined b.
JsAdd(a, b) == IF IsNum(a) /\ IsNum(b) THEN Num(a[2] + b[2]) ELSE NaN
\* a || b: NaN, undefined and 0 are falsy.
JsOr(a, b) == IF IsNum(a) /\ a[2] # 0 THEN a ELSE b

\* Exact rationals <<n, d>>, d > 0.
Rat(n, d) == <<n, d>>
RatAdd(x, y) == <<x[1] * y[2] + y[1] * x[2], x[2] * y[2]>>
RatSub(x, y) == <<x[1] * y[2] - y[1] * x[2], x[2] * y[2]>>
RatMul(x, y) == <<x[1] * y[1], x[2] * y[2]>>
RatDiv(x, y) == <<x[1] * y[2], x[2] * y[1]>>
RatLess(x, y) == x[1] * y[2] < y[1] * x[2]
\* Math.round: the nearest integer, a half rounding up.
MathRound(x) == (2 * x[1] + x[2]) \div (2 * x[2])

\* getCurrentWeek(): diff = now - start + ((start.getDay() + 6) % 7) days,
\* week = floor(diff / 7 days) + 1; the year of the label does not change here.
getCurrentWeek(day) == ((day + ((JanFirstDay + 6) % 7)) \div 7) + 1

-----------------------------------------------------------------------------
(* Collections.                                                            *)

\* The sum of field name over the elements of arr.
RECURSIVE SumOver(_, _, _)
SumOver(S, arr, name) ==
    IF S = {} THEN 0
    ELSE LET d == CHOOSE x \in S : TRUE
         IN  arr[d] * d[name] + SumOver(S \ {d}, arr, name)

\* arr.reduce((a, b) => a + b[name], 0) over documents that all hold name.
ReduceSum(arr, name) == SumOver(DOMAIN arr, arr, name)
\* arr.length
Length(arr) == BagCardinality(arr)
\* A slip: find({ projectId, week: getCurrentWeek() }) where the documents hold a week.
FindByProject_CurrentWeek(coll, projectId) ==
    [d \in {x \in DOMAIN coll :
               /\ x.projectId = projectId
               /\ "week" \in DOMAIN x => x.week = getCurrentWeek(now)} |-> coll[d]]
\* find({ projectId })
FindByProject(coll, projectId) ==
    [d \in {x \in DOMAIN coll : x.projectId = projectId} |-> coll[d]]
\* insertOne(doc)
InsertOne(coll, doc) == coll (+) SetToBag({doc})

-----------------------------------------------------------------------------
(* Policy A: the arithmetic of GET /api/projects/:id/health.               *)

\* A slip: no default for an empty array.
avgClientOf_NoDefault(fbs) ==
    IF Length(fbs) # 0
    THEN Rat(ReduceSum(fbs, "satisfactionRating"), Length(fbs))
    ELSE Rat(0, 1)

\* feedbacks.length ? feedbacks.reduce(...)/feedbacks.length : 5
avgClientOf(fbs) ==
    IF Length(fbs) # 0
    THEN Rat(ReduceSum(fbs, "satisfactionRating"), Length(fbs))
    ELSE Rat(5, 1)

\* checkins.length ? checkins.reduce(...)/checkins.length : 5
avgConfOf(cks) ==
    IF Length(cks) # 0
    THEN Rat(ReduceSum(cks, "confidenceLevel"), Length(cks))
    ELSE Rat(5, 1)

\* checkins.length ? checkins.reduce(...)/checkins.length : 0
avgCompletionOf(cks) ==
    IF Length(cks) # 0
    THEN Rat(ReduceSum(cks, "completionPercentage"), Length(cks))
    ELSE Rat(0, 1)

\* f.flaggedIssue is truthy
IsFlagged(f) == "flaggedIssue" \in DOMAIN f /\ f.flaggedIssue

\* feedbacks.filter(f => f.flaggedIssue).length
flaggedCountOf(fbs) ==
    BagCardinality([d \in {x \in DOMAIN fbs : IsFlagged(x)} |-> fbs[d]])

\* A slip: the lower clamp left out.
ClampScore_NoFloor(s) == IF s > 100 THEN 100 ELSE s

\* if (healthScore > 100) healthScore = 100; if (healthScore < 0) healthScore = 0
ClampScore(s) == IF s > 100 THEN 100 ELSE IF s < 0 THEN 0 ELSE s

\* A slip: a penalty of 10 for each flagged entry.
RawHealthScore_Penalty10(avgClient, avgConf, avgCompletion, flaggedCount) ==
    MathRound(RatSub(
        RatAdd(RatAdd(RatMul(RatMul(avgClient, Rat(20, 1)), Rat(4, 10)),
                      RatMul(RatMul(avgConf, Rat(20, 1)), Rat(4, 10))),
               RatMul(avgCompletion, Rat(2, 10))),
        Rat(flaggedCount * 10, 1)))

\* Math.round(avgClient*20*0.4 + avgConf*20*0.4 + avgCompletion*0.2 - flaggedCount*5)
RawHealthScore(avgClient, avgConf, avgCompletion, flaggedCount) ==
    MathRound(RatSub(
        RatAdd(RatAdd(RatMul(RatMul(avgClient, Rat(20, 1)), Rat(4, 10)),
                      RatMul(RatMul(avgConf, Rat(20, 1)), Rat(4, 10))),
               RatMul(avgCompletion, Rat(2, 10))),
        Rat(flaggedCount * 5, 1)))

healthScoreOf(avgClient, avgConf, avgCompletion, flaggedCount) ==
    ClampScore(RawHealthScore(avgClient, avgConf, avgCompletion, flaggedCount))

\* A slip: <= for < in the thresholds.
statusOf_Inclusive(healthScore) ==
    IF healthScore <= 60 THEN "Critical"
    ELSE IF healthScore <= 80 THEN "At Risk"
    ELSE "On Track"

\* let status = "On Track"; if (<60) "Critical"; else if (<80) "At Risk"
statusOf(healthScore) ==
    IF healthScore < 60 THEN "Critical"
    ELSE IF healthScore < 80 THEN "At Risk"
    ELSE "On Track"

-----------------------------------------------------------------------------
(* The initial state: the server has connected to an empty database.       *)

Idle == [pc |-> "idle"]
NoReply == [op |-> "none"]

Init ==
    /\ projects = << >>
    /\ nextId = 1
    /\ checkins = EmptyBag
    /\ feedbacks = EmptyBag
    /\ risks = EmptyBag
    /\ now = 0
    /\ health = [h \in Handlers |-> Idle]
    /\ reply = NoReply
    /\ dirty = {}

\* A signal for projectId arrives: the computations in flight for it may miss it.
Touch(projectId) ==
    [h \in Handlers |->
        IF health[h].pc # "idle" /\ health[h].projectId = projectId
        THEN [health[h] EXCEPT !.clean = FALSE]
        ELSE health[h]]

-----------------------------------------------------------------------------
(* The routes that write.                                                  *)

\* POST /api/projects: insertOne of a project with the score 100, "On Track".
CreateProject(pool, employeeIds) ==
    /\ nextId <= Len(pool)
    /\ projects' = projects @@
          (ObjectId(pool[nextId]) :>
              [employees |-> {ObjectId(e) : e \in employeeIds},
               status |-> "On Track",
               healthScore |-> 100])
    /\ nextId' = nextId + 1
    /\ reply' = NoReply
    /\ UNCHANGED <<checkins, feedbacks, risks, now, health, dirty>>

\* POST /api/feedbacks: the body's flaggedIssue is stored as flaggedIssue.
PostFeedback(projectId, satisfactionRating, flaggedIssue) ==
    /\ Length(feedbacks) < MaxFeedbacks
    /\ feedbacks' = InsertOne(feedbacks,
          [projectId |-> projectId,
           satisfactionRating |-> satisfactionRating,
           flaggedIssue |-> flaggedIssue])
    /\ health' = Touch(projectId)
    /\ dirty' = dirty \cup {projectId}
    /\ reply' = NoReply
    /\ UNCHANGED <<projects, nextId, checkins, risks, now>>

-----------------------------------------------------------------------------
(* GET /api/projects/:id/health, one step for each await.                  *)

\* findOne({ _id: new ObjectId(projectId) }); 404 when there is none.
HealthLookup(h, projectId) ==
    /\ health[h].pc = "idle"
    /\ IF ObjectId(projectId) \in DOMAIN projects
       THEN /\ health' = [health EXCEPT ![h] =
                    [pc |-> "feedbacks", projectId |-> projectId, clean |-> TRUE]]
            /\ reply' = NoReply
       ELSE /\ reply' = [op |-> "health", code |-> 404, projectId |-> projectId]
            /\ UNCHANGED health
    /\ UNCHANGED <<projects, nextId, checkins, feedbacks, risks, now, dirty>>

\* feedbacks.find({ projectId }).toArray(), then avgClient (and flaggedCount,
\* which the code takes from the same array).
HealthFeedbacks(h) ==
    /\ health[h].pc = "feedbacks"
    /\ LET fbs == FindByProject(feedbacks, health[h].projectId)
       IN  health' = [health EXCEPT ![h] =
              [pc |-> "checkins", projectId |-> health[h].projectId,
               clean |-> health[h].clean,
               avgClient |-> avgClientOf(fbs),
               flaggedCount |-> flaggedCountOf(fbs)]]
    /\ reply' = NoReply
    /\ UNCHANGED <<projects, nextId, checkins, feedbacks, risks, now, dirty>>

\* checkins.find({ projectId }).toArray(), then the score and the status.
HealthCheckins(h) ==
    /\ health[h].pc = "checkins"
    /\ LET cks == FindByProject(checkins, health[h].projectId)
           healthScore == healthScoreOf(health[h].avgClient, avgConfOf(cks),
                                        avgCompletionOf(cks), health[h].flaggedCount)
       IN  health' = [health EXCEPT ![h] =
              [pc |-> "update", projectId |-> health[h].projectId,
               clean |-> health[h].clean,
               healthScore |-> healthScore,
               status |-> statusOf(healthScore)]]
    /\ reply' = NoReply
    /\ UNCHANGED <<projects, nextId, checkins, feedbacks, risks, now, dirty>>

\* A slip: $set without the status.
UpdateScore_ScoreOnly(projectId, healthScore, status) ==
    IF ObjectId(projectId) \in DOMAIN projects
    THEN [projects EXCEPT ![ObjectId(projectId)] =
            [@ EXCEPT !.healthScore = healthScore]]
    ELSE projects

\* updateOne({ _id }, { $set: { healthScore, status } }), then res.json.
UpdateScore(projectId, healthScore, status) ==
    IF ObjectId(projectId) \in DOMAIN projects
    THEN [projects EXCEPT ![ObjectId(projectId)] =
            [@ EXCEPT !.healthScore = healthScore, !.status = status]]
    ELSE projects

HealthUpdate(h) ==
    /\ health[h].pc = "update"
    /\ projects' = UpdateScore(health[h].projectId, health[h].healthScore,
                               health[h].status)
    /\ reply' = [op |-> "health", code |-> 200,
                 projectId |-> health[h].projectId,
                 healthScore |-> health[h].healthScore,
                 status |-> health[h].status]
    /\ dirty' = IF health[h].clean THEN dirty \ {health[h].projectId}
                ELSE dirty \cup {health[h].projectId}
    /\ health' = [health EXCEPT ![h] = Idle]
    /\ UNCHANGED <<nextId, checkins, feedbacks, risks, now>>

-----------------------------------------------------------------------------
(* The clock.                                                              *)

\* A day passes.
Tick ==
    /\ now < MaxDay
    /\ now' = now + 1
    /\ reply' = NoReply
    /\ UNCHANGED <<projects, nextId, checkins, feedbacks, risks, health, dirty>>

-----------------------------------------------------------------------------
(* More routes that write.                                                 *)

\* POST /api/checkins: the week is the server's, not the body's.
PostCheckin(userId, projectId, confidenceLevel, completionPercentage) ==
    /\ Length(checkins) < MaxCheckins
    /\ checkins' = InsertOne(checkins,
          [projectId |-> projectId,
           employeeId |-> userId,
           week |-> getCurrentWeek(now),
           confidenceLevel |-> confidenceLevel,
           completionPercentage |-> completionPercentage])
    /\ health' = Touch(projectId)
    /\ dirty' = dirty \cup {projectId}
    /\ reply' = NoReply
    /\ UNCHANGED <<projects, nextId, feedbacks, risks, now>>

\* POST /api/projects/:id/feedbacks: the body's flagIssue is stored as flagIssue.
PostProjectFeedback(projectId, satisfactionRating, flagIssue) ==
    /\ Length(feedbacks) < MaxFeedbacks
    /\ feedbacks' = InsertOne(feedbacks,
          [projectId |-> projectId,
           satisfactionRating |-> satisfactionRating,
           flagIssue |-> flagIssue,
           week |-> getCurrentWeek(now)])
    /\ health' = Touch(projectId)
    /\ dirty' = dirty \cup {projectId}
    /\ reply' = NoReply
    /\ UNCHANGED <<projects, nextId, checkins, risks, now>>

\* POST /api/risks: status || "Open".
PostRisk(projectId, severity, status) ==
    /\ Length(risks) < MaxRisks
    /\ risks' = InsertOne(risks,
          [projectId |-> projectId,
           severity |-> severity,
           status |-> IF status = "" THEN "Open" ELSE status])
    /\ reply' = NoReply
    /\ UNCHANGED <<projects, nextId, checkins, feedbacks, now, health, dirty>>

\* DELETE /api/projects/:id
DeleteProject(projectId) ==
    /\ ObjectId(projectId) \in DOMAIN projects
    /\ projects' = [o \in DOMAIN projects \ {ObjectId(projectId)} |-> projects[o]]
    /\ reply' = NoReply
    /\ UNCHANGED <<nextId, checkins, feedbacks, risks, now, health, dirty>>

-----------------------------------------------------------------------------
(* Policy B: calculateHealth and the admin listing.                        *)

\* feedbacks.reduce((a, b) => a + b.satisfaction || 5, 0): the callback is
\* (a + b.satisfaction) || 5, applied once for each element.
RECURSIVE ReduceSatisfaction(_, _, _)
ReduceSatisfaction(S, arr, acc) ==
    IF S = {} THEN acc
    ELSE LET d == CHOOSE x \in S : TRUE
             step == JsOr(JsAdd(acc, Field(d, "satisfaction")), Num(5))
         IN  IF arr[d] > 1
             THEN ReduceSatisfaction(S, [arr EXCEPT ![d] = @ - 1], step)
             ELSE ReduceSatisfaction(S \ {d}, arr, step)

\* feedbacks.length ? feedbacks.reduce(...)/feedbacks.length : 5
avgSatisfactionOf(fbs) ==
    IF Length(fbs) # 0
    THEN Rat(ReduceSatisfaction(DOMAIN fbs, fbs, Num(0))[2], Length(fbs))
    ELSE Rat(5, 1)

\* risks.filter(r => r.severity === "High" && r.status === "Open").length
highRisksOf(rks) ==
    BagCardinality([d \in {x \in DOMAIN rks :
                              x.severity = "High" /\ x.status = "Open"} |-> rks[d]])

\* if (score > 100) score = 100; if (score < 0) score = 0, on a rational
ClampRat(x) ==
    IF RatLess(Rat(100, 1), x) THEN Rat(100, 1)
    ELSE IF RatLess(x, Rat(0, 1)) THEN Rat(0, 1)
    ELSE x

\* A slip: score += highRisks * 10.
calculateHealth_Plus(rks, cks, fbs) ==
    LET s0 == Rat(100 + highRisksOf(rks) * 10, 1)
        s1 == RatMul(s0, RatDiv(avgConfOf(cks), Rat(5, 1)))
        s2 == RatMul(s1, RatDiv(avgSatisfactionOf(fbs), Rat(5, 1)))
    IN  MathRound(ClampRat(s2))

\* score = 100 - 10 * highRisks, times avgConfidence/5, times avgSatisfaction/5,
\* clamped to 0..100 and then rounded.
calculateHealth(rks, cks, fbs) ==
    LET s0 == Rat(100 - highRisksOf(rks) * 10, 1)
        s1 == RatMul(s0, RatDiv(avgConfOf(cks), Rat(5, 1)))
        s2 == RatMul(s1, RatDiv(avgSatisfactionOf(fbs), Rat(5, 1)))
    IN  MathRound(ClampRat(s2))

\* projectRisks.filter(r => r.status === 'Open').length
openRisksCountOf(rks) ==
    BagCardinality([d \in {x \in DOMAIN rks : x.status = "Open"} |-> rks[d]])

\* One entry of the listing of GET /api/admin/projects.
AdminEntry(oid) ==
    [openRisksCount |-> openRisksCountOf(FindByProject(risks, toString(oid))),
     healthScore |-> calculateHealth(FindByProject(risks, toString(oid)),
                                     FindByProject(checkins, toString(oid)),
                                     FindByProject(feedbacks, toString(oid)))]

\* GET /api/admin/projects
AdminProjects ==
    /\ reply' = [op |-> "adminProjects", code |-> 200,
                 body |-> [oid \in DOMAIN projects |-> AdminEntry(oid)]]
    /\ UNCHANGED <<projects, nextId, checkins, feedbacks, risks, now, health, dirty>>

-----------------------------------------------------------------------------
(* The check-in views.                                                     *)

\* projects.find({ employees: userId }): userId is req.user._id.toString().
FindAssigned(userId) ==
    {oid \in DOMAIN projects : \E e \in projects[oid].employees : e = Str(userId)}

\* checkins.findOne({ projectId, employeeId, week })
HasCheckin(projectId, userId, week) ==
    \E c \in DOMAIN checkins :
        c.projectId = projectId /\ c.employeeId = userId /\ c.week = week

\* GET /api/employee/checkins/pending
PendingCheckins(userId) ==
    /\ reply' = [op |-> "pending", code |-> 200, userId |-> userId,
                 week |-> getCurrentWeek(now),
                 body |-> {toString(oid) : oid \in
                             {o \in FindAssigned(userId) :
                                ~HasCheckin(toString(o), userId, getCurrentWeek(now))}}]
    /\ UNCHANGED <<projects, nextId, checkins, feedbacks, risks, now, health, dirty>>

\* A slip: checkins.find() without the week.
MissingOf_AnyWeek(week) ==
    {oid \in DOMAIN projects :
        ~\E c \in DOMAIN checkins : c.projectId = toString(oid)}

\* projects.filter(p => !checkins.some(c => c.projectId === p._id.toString()))
\* over checkins.find({ week })
MissingOf(week) ==
    {oid \in DOMAIN projects :
        ~\E c \in DOMAIN checkins : c.week = week /\ c.projectId = toString(oid)}

\* GET /api/admin/projects/missing-checkins
MissingCheckins ==
    /\ reply' = [op |-> "missing", code |-> 200, body |-> MissingOf(getCurrentWeek(now))]
    /\ UNCHANGED <<projects, nextId, checkins, feedbacks, risks, now, health, dirty>>

-----------------------------------------------------------------------------
(* The high-risk view.                                                     *)

\* What new ObjectId(s) accepts: a string of 24 hexadecimal characters, as the
\* generated ids are; on any other string it throws.
isValid(s) == \E i \in 1..Len(ProjectHex) : s = ProjectHex[i]

\* risks.find({ status: 'Open', severity: 'High' }), the distinct projectId
\* of the result.
HighRiskProjectIds ==
    {r.projectId : r \in {x \in DOMAIN risks : x.status = "Open" /\ x.severity = "High"}}

\* GET /api/admin/projects/high-risk: projects.find({ _id: { $in: ... } }) on
\* new ObjectId(id) of every distinct id; a throw is caught and answered 500.
\* The body is the set of the _id of the documents found: find returns a
\* document once however many members of $in equal its _id.
HighRiskProjects ==
    /\ reply' = IF \A id \in HighRiskProjectIds : isValid(id)
                THEN [op |-> "highRisk", code |-> 200,
                      body |-> {oid \in DOMAIN projects :
                                  \E id \in HighRiskProjectIds : oid = ObjectId(id)}]
                ELSE [op |-> "highRisk", code |-> 500]
    /\ UNCHANGED <<projects, nextId, checkins, feedbacks, risks, now, health, dirty>>

-----------------------------------------------------------------------------
(* Specifications.                                                         *)

\* Every bag of at most n documents drawn from docs.
RECURSIVE BagsUpTo(_, _)
BagsUpTo(n, docs) ==
    IF n = 0 THEN {EmptyBag}
    ELSE LET S == BagsUpTo(n - 1, docs)
         IN  S \cup {InsertOne(b, d) : b \in S, d \in docs}

\* The check-ins and the feedback that POST /api/checkins and POST /api/feedbacks
\* have stored for project p1 by the time its health is read; the check-ins are
\* those of the first days of the year, read on day MaxDay.
ScoreCheckinDocs ==
    [projectId : {"p1"}, employeeId : {"e1"}, week : {getCurrentWeek(0)},
     confidenceLevel : ScoreConfidenceLevels,
     completionPercentage : ScoreCompletionPercentages]
ScoreFeedbackDocs ==
    [projectId : {"p1"}, satisfactionRating : ScoreSatisfactionRatings,
     flaggedIssue : BOOLEAN]

\* The scoring engine on one project: the project as POST /api/projects made it,
\* any signals stored for it, and the health handler reading it.
InitScore ==
    /\ projects = (ObjectId("p1") :>
          [employees |-> {ObjectId("e1")}, status |-> "On Track", healthScore |-> 100])
    /\ nextId = 2
    /\ checkins \in BagsUpTo(MaxCheckins, ScoreCheckinDocs)
    /\ feedbacks \in BagsUpTo(MaxScoreFeedbacks, ScoreFeedbackDocs)
    /\ risks = EmptyBag
    /\ now = MaxDay
    /\ health = [h \in Handlers |-> Idle]
    /\ reply = NoReply
    /\ dirty = IF checkins = EmptyBag /\ feedbacks = EmptyBag THEN {} ELSE {"p1"}

NextScore ==
    \/ HealthLookup(1, "p1")
    \/ HealthFeedbacks(1)
    \/ HealthCheckins(1)
    \/ HealthUpdate(1)

SpecScore == InitScore /\ [][NextScore]_vars

\* The admin listing: two projects, the signals of p1 as the routes stored
\* them, and risks arriving while the listing is read.
AdminCheckinDocs ==
    [projectId : {"p1"}, employeeId : {"e1"}, week : {getCurrentWeek(0)},
     confidenceLevel : {1, 3, 5}, completionPercentage : {50}]
AdminFeedbackDocs ==
    [projectId : {"p1"}, satisfactionRating : {3, 5}, flaggedIssue : {FALSE}]
AdminRiskInputs ==
    {<<"p1", "High", "">>, <<"p1", "High", "Mitigated">>, <<"p1", "Low", "Open">>,
     <<"p2", "High", "">>}

InitAdmin ==
    /\ projects = [oid \in {ObjectId("p1"), ObjectId("p2")} |->
          [employees |-> {ObjectId("e1")}, status |-> "On Track", healthScore |-> 100]]
    /\ nextId = 3
    /\ checkins \in BagsUpTo(MaxCheckins, AdminCheckinDocs)
    /\ feedbacks \in BagsUpTo(MaxFeedbacks, AdminFeedbackDocs)
    /\ risks = EmptyBag
    /\ now = 0
    /\ health = [h \in Handlers |-> Idle]
    /\ reply = NoReply
    /\ dirty = IF checkins = EmptyBag /\ feedbacks = EmptyBag THEN {} ELSE {"p1"}

NextAdmin ==
    \/ \E r \in AdminRiskInputs : PostRisk(r[1], r[2], r[3])
    \/ AdminProjects

SpecAdmin == InitAdmin /\ [][NextAdmin]_vars

\* The check-in views: projects are created and deleted, check-ins arrive, days pass.
NextCheckins ==
    \/ \E es \in {{"e1"}, {"e1", "e2"}} : CreateProject(ProjectHex, es)
    \/ \E i \in 1..Len(ProjectHex) : DeleteProject(ProjectHex[i])
    \/ \E e \in Employees, i \in 1..Len(ProjectHex) : PostCheckin(e, ProjectHex[i], 4, 50)
    \/ Tick
    \/ \E e \in Employees : PendingCheckins(e)
    \/ MissingCheckins

SpecCheckins == Init /\ [][NextCheckins]_vars

\* The high-risk view: two projects are created and may be deleted, risks
\* arrive with the projectId their body gives (a project's id, or a string
\* that is no ObjectId), and the view is read.
RiskInputs ==
    {<<"p1", "High", "">>, <<"p2", "High", "">>, <<"p2", "Low", "">>,
     <<"p1", "High", "Closed">>, <<"not-an-id", "High", "">>}

NextRisks ==
    \/ CreateProject(<<"p1", "p2">>, {"e1"})
    \/ \E p \in {"p1", "p2"} : DeleteProject(p)
    \/ \E r \in RiskInputs : PostRisk(r[1], r[2], r[3])
    \/ HighRiskProjects

SpecRisks == Init /\ [][NextRisks]_vars

\* Two health requests for the same project in flight together while its
\* check-ins and feedback arrive: the project as POST /api/projects made it.
InitRace ==
    /\ projects = (ObjectId("p1") :>
          [employees |-> {ObjectId("e1")}, status |-> "On Track", healthScore |-> 100])
    /\ nextId = 2
    /\ checkins = EmptyBag
    /\ feedbacks = EmptyBag
    /\ risks = EmptyBag
    /\ now = 0
    /\ health = [h \in Handlers |-> Idle]
    /\ reply = NoReply
    /\ dirty = {}

NextRace ==
    \/ PostCheckin("e1", "p1", 3, 50)
    \/ \E f \in BOOLEAN : PostFeedback("p1", 4, f)
    \/ \E f \in BOOLEAN : PostProjectFeedback("p1", 5, f)
    \/ \E h \in Handlers : HealthLookup(h, "p1")
    \/ \E h \in Handlers : HealthFeedbacks(h)
    \/ \E h \in Handlers : HealthCheckins(h)
    \/ \E h \in Handlers : HealthUpdate(h)

SpecRace == InitRace /\ [][NextRace]_vars

\* One project from its creation on: its signals arrive through every route
\* while its health is read, and it may be deleted.
Next ==
    \/ CreateProject(<<"p1">>, {"e1"})
    \/ DeleteProject("p1")
    \/ PostCheckin("e1", "p1", 3, 50)
    \/ \E f \in BOOLEAN : PostFeedback("p1", 4, f)
    \/ \E f \in BOOLEAN : PostProjectFeedback("p1", 4, f)
    \/ PostRisk("p1", "High", "")
    \/ HealthLookup(1, "p1")
    \/ HealthFeedbacks(1)
    \/ HealthCheckins(1)
    \/ HealthUpdate(1)

Spec == Init /\ [][Next]_vars

-----------------------------------------------------------------------------
(* Properties of the scoring engine (Policy A), under SpecScore.           *)

\* The handler has just answered 200 with a score for project p1.
HealthAnswered == reply.op = "health" /\ reply.code = 200

\* The stored signals of p1, as the claims speak of them.
P1Feedbacks == [d \in {x \in DOMAIN feedbacks : x.projectId = "p1"} |-> feedbacks[d]]
P1Checkins == [d \in {x \in DOMAIN checkins : x.projectId = "p1"} |-> checkins[d]]
NumFlagged == BagCardinality(
    [d \in {x \in DOMAIN P1Feedbacks :
               "flaggedIssue" \in DOMAIN x /\ x.flaggedIssue} |-> P1Feedbacks[d]])

\* C1: the score that computeHealth returns and writes onto the project is an
\* integer in 0..100: the answer's score is, and so is every stored score.
C1_ScoreInRange ==
    /\ HealthAnswered =>
          /\ reply.healthScore \in 0..100
          /\ projects[ObjectId(reply.projectId)].healthScore = reply.healthScore
    /\ \A oid \in DOMAIN projects : projects[oid].healthScore \in 0..100

\* C1's case: four flagged entries on the lowest ratings take the rounded sum
\* below 0, and the answer is 0.
C1_Witness ==
    /\ HealthAnswered
    /\ NumFlagged = 4
    /\ reply.healthScore = 0

\* C2: the status returned and stored is decided by the clamped score alone:
\* Critical below 60, At Risk from 60 to 79, On Track from 80.
C2_StatusByScore ==
    HealthAnswered =>
        /\ reply.status = projects[ObjectId(reply.projectId)].status
        /\ (reply.status = "Critical") <=> (reply.healthScore <= 59)
        /\ (reply.status = "At Risk") <=>
              (60 <= reply.healthScore /\ reply.healthScore <= 79)
        /\ (reply.status = "On Track") <=> (reply.healthScore >= 80)

\* C2's case: a score of exactly 60, the lower edge of At Risk.
C2_Witness ==
    /\ HealthAnswered
    /\ reply.healthScore = 60
    /\ reply.status = "At Risk"

\* The other three boundary scores are answered too.
C2_Score59 == HealthAnswered /\ reply.healthScore = 59 /\ reply.status = "Critical"
C2_Score79 == HealthAnswered /\ reply.healthScore = 79 /\ reply.status = "At Risk"
C2_Score80 == HealthAnswered /\ reply.healthScore = 80 /\ reply.status = "On Track"

\* C3 as stated: with no feedback and no check-ins the answer is 80, "At Risk".
C3_Original ==
    (HealthAnswered /\ feedbacks = EmptyBag /\ checkins = EmptyBag) =>
        (reply.healthScore = 80 /\ reply.status = "At Risk")

\* C3, amended: with no feedback and no check-ins the answer is 80, "On Track",
\* and that is what the project then holds.
C3_DefaultScore ==
    (HealthAnswered /\ feedbacks = EmptyBag /\ checkins = EmptyBag) =>
        /\ reply.healthScore = 80
        /\ reply.status = "On Track"
        /\ projects[ObjectId("p1")].healthScore = 80
        /\ projects[ObjectId("p1")].status = "On Track"

C3_Witness == HealthAnswered /\ feedbacks = EmptyBag /\ checkins = EmptyBag

\* The sums and counts of the formula, with the defaults of an empty set: the
\* means are SatNum/SatDen, ConfNum/ConfDen and ComplNum/ConfDen.
SatDen == IF P1Feedbacks = EmptyBag THEN 1 ELSE BagCardinality(P1Feedbacks)
SatNum == IF P1Feedbacks = EmptyBag THEN 5
          ELSE SumOver(DOMAIN P1Feedbacks, P1Feedbacks, "satisfactionRating")
ConfDen == IF P1Checkins = EmptyBag THEN 1 ELSE BagCardinality(P1Checkins)
ConfNum == IF P1Checkins = EmptyBag THEN 5
           ELSE SumOver(DOMAIN P1Checkins, P1Checkins, "confidenceLevel")
ComplNum == IF P1Checkins = EmptyBag THEN 0
            ELSE SumOver(DOMAIN P1Checkins, P1Checkins, "completionPercentage")

\* 5 * SatDen * ConfDen times
\* avgSatisfaction*20*0.4 + avgConfidence*20*0.4 + avgCompletion*0.2 - flaggedCount*5
FormulaTimesDen ==
    40 * SatNum * ConfDen + 40 * ConfNum * SatDen + ComplNum * SatDen
      - 25 * NumFlagged * SatDen * ConfDen
FormulaDen == 5 * SatDen * ConfDen

\* r is x/d rounded: r - 1/2 <= x/d < r + 1/2.
IsRounded(r, x, d) ==
    /\ (2 * r - 1) * d <= 2 * x
    /\ 2 * x < (2 * r + 1) * d

\* The scenario of the specification: two feedback entries rated 4 and 5, none
\* flagged, and two check-ins with confidence 3 and 5, completion 50 and 70.
C4_Scenario ==
    /\ feedbacks = SetToBag({[projectId |-> "p1", satisfactionRating |-> r,
                              flaggedIssue |-> FALSE] : r \in {4, 5}})
    /\ \E w \in {getCurrentWeek(0)} :
          checkins = SetToBag({
              [projectId |-> "p1", employeeId |-> "e1", week |-> w,
               confidenceLevel |-> 3, completionPercentage |-> 50],
              [projectId |-> "p1", employeeId |-> "e1", week |-> w,
               confidenceLevel |-> 5, completionPercentage |-> 70]})

\* C4: over all the project's feedback and check-ins, of any period, the answer
\* is clamp(round(avgSatisfaction*20*0.4 + avgConfidence*20*0.4
\* + avgCompletion*0.2 - flaggedCount*5), 0, 100), the means defaulting to 5, 5
\* and 0; satisfaction {4,5}, confidence {3,5}, completion {50,70} and no flag
\* give 80, On Track.
C4_Formula ==
    HealthAnswered =>
        /\ LET x == FormulaTimesDen
               d == FormulaDen
           IN  \E r \in -100..200 :
                  /\ IsRounded(r, x, d)
                  /\ reply.healthScore = IF r > 100 THEN 100 ELSE IF r < 0 THEN 0 ELSE r
        /\ (C4_Scenario => reply.healthScore = 80 /\ reply.status = "On Track")

\* C4's case: the scenario's signals, all of an earlier week than the read.
C4_Witness ==
    /\ HealthAnswered
    /\ C4_Scenario
    /\ \A c \in DOMAIN checkins : c.week # getCurrentWeek(now)

\* C7: for fixed check-ins and satisfaction ratings, k flagged entries give
\* max(0, the score of the same entries unflagged - 5k).
C7_FlagPenalty ==
    HealthAnswered =>
        LET unflagged == healthScoreOf(avgClientOf(P1Feedbacks), avgConfOf(P1Checkins),
                                       avgCompletionOf(P1Checkins), 0)
            penalised == unflagged - 5 * NumFlagged
        IN  reply.healthScore = IF penalised < 0 THEN 0 ELSE penalised

\* C7's cases: the penalty in full, and the penalty cut short at 0.
C7_Witness ==
    /\ HealthAnswered
    /\ NumFlagged = 3
    /\ BagCardinality(P1Feedbacks) = 4
    /\ reply.healthScore =
          healthScoreOf(avgClientOf(P1Feedbacks), avgConfOf(P1Checkins),
                        avgCompletionOf(P1Checkins), 0) - 15
    /\ reply.healthScore > 0

-----------------------------------------------------------------------------
(* Properties of the admin listing (Policy B), under SpecAdmin.            *)

AdminAnswered == reply.op = "adminProjects"

\* The signals of the project with hexadecimal id hex.
RisksOf(hex) == [d \in {x \in DOMAIN risks : x.projectId = hex} |-> risks[d]]
CheckinsOf(hex) == [d \in {x \in DOMAIN checkins : x.projectId = hex} |-> checkins[d]]
FeedbacksOf(hex) == [d \in {x \in DOMAIN feedbacks : x.projectId = hex} |-> feedbacks[d]]
NumHighOpen(hex) == BagCardinality(
    [d \in {x \in DOMAIN RisksOf(hex) : x.severity = "High" /\ x.status = "Open"}
       |-> RisksOf(hex)[d]])

\* clamp(round((100 - 10*H) * (avgConfidence/5) * (avgSatisfaction/5)), 0, 100)
\* with the means of confidenceLevel and of satisfactionRating, 5 for none.
C5_Expected(hex) ==
    LET cks == CheckinsOf(hex)
        fbs == FeedbacksOf(hex)
        cn == IF cks = EmptyBag THEN 5 ELSE SumOver(DOMAIN cks, cks, "confidenceLevel")
        cd == IF cks = EmptyBag THEN 1 ELSE BagCardinality(cks)
        sn == IF fbs = EmptyBag THEN 5 ELSE SumOver(DOMAIN fbs, fbs, "satisfactionRating")
        sd == IF fbs = EmptyBag THEN 1 ELSE BagCardinality(fbs)
        x == (100 - 10 * NumHighOpen(hex)) * cn * sn
        d == 25 * cd * sd
        r == (2 * x + d) \div (2 * d)
    IN  IF r > 100 THEN 100 ELSE IF r < 0 THEN 0 ELSE r

\* C5: every entry of the admin listing carries
\* clamp(round((100 - 10*H) * (avgConfidence/5) * (avgSatisfaction/5)), 0, 100),
\* H the project's High and Open risks, the means over its check-ins and its
\* feedback's satisfaction ratings (5 for none).
C5_Original ==
    AdminAnswered =>
        \A oid \in DOMAIN reply.body :
            reply.body[oid].healthScore = C5_Expected(toString(oid))

\* C8: one more High and Open risk for a project, all else fixed, never raises
\* the healthScore of the project: what the listing has just answered is at
\* least what it answers with such a risk added to the stored ones.
C8_Monotone ==
    AdminAnswered =>
        \A oid \in DOMAIN projects :
            LET hex == toString(oid)
                more == risks (+) SetToBag({[projectId |-> hex, severity |-> "High",
                                             status |-> "Open"]})
            IN  calculateHealth(FindByProject(more, hex), FindByProject(checkins, hex),
                                FindByProject(feedbacks, hex))
                    <= reply.body[oid].healthScore

\* C8's case: the listing is read with eleven High and Open risks on p1, the
\* running score below 0 before the clamp, and with one on p2.
C8_Witness ==
    /\ AdminAnswered
    /\ NumHighOpen("p1") = 11
    /\ reply.body[ObjectId("p1")].healthScore = 0
    /\ reply.body[ObjectId("p2")].healthScore = 100
    /\ CheckinsOf("p1") # EmptyBag

-----------------------------------------------------------------------------
(* Properties of the check-in views, under SpecCheckins.                   *)

\* C9: the pending list of an employee is exactly the projects the employee
\* was assigned to at creation that hold no check-in of that project, that
\* employee and the current week.
C9_Original ==
    reply.op = "pending" =>
        reply.body =
            {toString(oid) : oid \in
                {o \in DOMAIN projects :
                    /\ ObjectId(reply.userId) \in projects[o].employees
                    /\ ~\E c \in DOMAIN checkins :
                          /\ c.projectId = toString(o)
                          /\ c.employeeId = reply.userId
                          /\ c.week = getCurrentWeek(now)}}

\* C10: the missing list is exactly the existing projects with no check-in of
\* the current week by any employee; check-ins of earlier weeks do not count.
C10_Missing ==
    reply.op = "missing" =>
        /\ reply.body \subseteq DOMAIN projects
        /\ \A oid \in DOMAIN projects :
              oid \in reply.body <=>
                  \A c \in DOMAIN checkins :
                      c.projectId = oid[2] => c.week # getCurrentWeek(now)

\* C10's case: three projects, only p1 with a check-in of the current week, p2
\* with one of an earlier week: the list is p2 and p3.
C10_Witness ==
    /\ reply.op = "missing"
    /\ DOMAIN projects = {ObjectId("p1"), ObjectId("p2"), ObjectId("p3")}
    /\ \E c \in DOMAIN checkins : c.projectId = "p1" /\ c.week = getCurrentWeek(now)
    /\ \E c \in DOMAIN checkins : c.projectId = "p2" /\ c.week < getCurrentWeek(now)
    /\ reply.body = {ObjectId("p2"), ObjectId("p3")}

-----------------------------------------------------------------------------
(* The stored score against the signals, under Spec.                       *)

\* C6: whenever no signal of a project is newer than the project's last
\* health computation (a new project with no signal included), the stored
\* healthScore and status are what the health computation gives for the
\* project's check-ins and feedback.
C6_Original ==
    \A oid \in DOMAIN projects :
        toString(oid) \notin dirty =>
            LET fbs == FeedbacksOf(toString(oid))
                cks == CheckinsOf(toString(oid))
                score == healthScoreOf(avgClientOf(fbs), avgConfOf(cks),
                                       avgCompletionOf(cks), flaggedCountOf(fbs))
            IN  /\ projects[oid].healthScore = score
                /\ projects[oid].status = statusOf(score)

-----------------------------------------------------------------------------
(* Properties of the high-risk view, under SpecRisks.                      *)

\* The view answers 200 with exactly the existing projects that some High and
\* Open risk names.
HighRiskExact ==
    /\ reply.code = 200
    /\ reply.body = {oid \in DOMAIN projects : NumHighOpen(toString(oid)) >= 1}

\* C11: the high-risk view returns exactly the existing projects named by at
\* least one risk with status Open and severity High; a project whose risks
\* are all non-High or non-Open is left out, and a risk that names no existing
\* project does not keep the others from being returned.
C11_Original == reply.op = "highRisk" => HighRiskExact

\* Where the view holds: whenever every High and Open risk names a well-formed
\* id (of an existing project, or of a deleted one), the answer is exact.
C11_WellFormedIds ==
    reply.op = "highRisk" /\ (\A id \in HighRiskProjectIds : isValid(id))
        => HighRiskExact

\* The view read with High and Open risks on p1 and on the deleted p2: p1 is
\* returned.
C11_MissingProject ==
    /\ reply.op = "highRisk"
    /\ reply.code = 200
    /\ DOMAIN projects = {ObjectId("p1")}
    /\ NumHighOpen("p2") >= 1
    /\ reply.body = {ObjectId("p1")}

-----------------------------------------------------------------------------
(* The health handler and a project that is gone, under Spec.              *)

\* C12: the health computation on an identifier that has no project signals
\* Not-Found and returns no score, also when the project is deleted between
\* the handler's lookup and its write: an answer about a project that is not
\* stored is the 404.
C12_Original ==
    reply.op = "health" /\ ObjectId(reply.projectId) \notin DOMAIN projects
        => reply.code = 404

\* The part of C12 about the stored state: an answer about a project that is
\* not stored comes from a step that wrote nothing.
C12_NothingStored ==
    [][reply'.op = "health" /\ ObjectId(reply'.projectId) \notin DOMAIN projects'
          => UNCHANGED <<projects, checkins, feedbacks, risks>>]_vars

\* The lookup finds no project: 404, no score.
C12_LookupMiss ==
    /\ reply.op = "health"
    /\ reply.code = 404
    /\ projects = << >>
    /\ nextId = 2

-----------------------------------------------------------------------------
(* Concurrent health computations of one project, under SpecRace.          *)

\* The Policy A result for the signals of p1 stored now.
PolicyAScore ==
    LET x == FormulaTimesDen
        d == FormulaDen
        r == CHOOSE q \in -100..200 : IsRounded(q, x, d)
    IN  IF r > 100 THEN 100 ELSE IF r < 0 THEN 0 ELSE r
PolicyAStatus ==
    LET s == PolicyAScore
    IN  IF s < 60 THEN "Critical" ELSE IF s < 80 THEN "At Risk" ELSE "On Track"

\* C13: however health computations of one project interleave with one
\* another and with check-in and feedback submissions, a computation that
\* runs from its lookup to its write with no submission in between leaves the
\* stored healthScore and status equal to the Policy A result for the signals
\* then present (and answers the same).
C13_SelfCorrects ==
    HealthAnswered /\ reply.projectId \notin dirty =>
        /\ projects[ObjectId("p1")].healthScore = PolicyAScore
        /\ projects[ObjectId("p1")].status = PolicyAStatus
        /\ reply.healthScore = PolicyAScore
        /\ reply.status = PolicyAStatus

\* C13's case: a computation with no submission during it has just written
\* "At Risk" for a check-in and a flagged and an unflagged entry, while the
\* other computation, which began before a submission, still holds an older
\* score to write.
C13_Witness ==
    /\ HealthAnswered
    /\ "p1" \notin dirty
    /\ BagCardinality(checkins) = 1
    /\ BagCardinality(feedbacks) = 2
    /\ NumFlagged = 1
    /\ projects[ObjectId("p1")].status = "At Risk"
    /\ \E h \in Handlers :
          /\ health[h].pc = "update"
          /\ ~health[h].clean
          /\ health[h].healthScore # projects[ObjectId("p1")].healthScore

\* A stale score left stored: the last write was of a computation that a
\* submission overtook, no computation is in flight, and the stored score is
\* not the Policy A result.
C13_StaleStored ==
    /\ HealthAnswered
    /\ "p1" \in dirty
    /\ \A h \in Handlers : health[h].pc = "idle"
    /\ projects[ObjectId("p1")].healthScore # PolicyAScore

-----------------------------------------------------------------------------
(* The issue flag of both feedback routes, under Spec.                     *)

\* The feedback entries of p1 submitted with the issue flag set: flaggedIssue
\* through POST /api/feedbacks, flagIssue through POST /api/projects/:id/feedbacks.
NumSubmittedFlagged == BagCardinality(
    [d \in {x \in DOMAIN P1Feedbacks :
               \/ "flaggedIssue" \in DOMAIN x /\ x.flaggedIssue
               \/ "flagIssue" \in DOMAIN x /\ x.flagIssue} |-> P1Feedbacks[d]])

\* C14: every feedback entry submitted with its issue flag set, through either
\* route, is counted by a later health computation of the project and costs 5
\* points: a computation begun after the last submission answers
\* max(0, the score of the same entries unflagged - 5 for each such entry).
C14_Original ==
    HealthAnswered /\ reply.projectId \notin dirty =>
        LET unflagged == healthScoreOf(avgClientOf(P1Feedbacks), avgConfOf(P1Checkins),
                                       avgCompletionOf(P1Checkins), 0)
            penalised == unflagged - 5 * NumSubmittedFlagged
        IN  reply.healthScore = IF penalised < 0 THEN 0 ELSE penalised

\* Where the flag is counted: an entry flagged through POST /api/feedbacks
\* has cost 5 points.
C14_FlaggedIssueCounted ==
    /\ HealthAnswered
    /\ "p1" \notin dirty
    /\ NumFlagged = 1
    /\ NumSubmittedFlagged = 1
    /\ reply.healthScore =
          healthScoreOf(avgClientOf(P1Feedbacks), avgConfOf(P1Checkins),
                        avgCompletionOf(P1Checkins), 0) - 5

=============================================================================
